---- MODULE Spec2Model ----
(***************************************************************************)
(* A model of the research-focus map's MapContainer component              *)
(* (src/src/components/Map/MapContainer.tsx): the proximity clusterer,     *)
(* the selection/focus tracker, the tour sequencer with its two browser    *)
(* timers, and the camera view.                                            *)
(*                                                                         *)
(* Units.  Latitudes and longitudes are integers in thousandths of a       *)
(* degree, zoom levels are integers in tenths of a zoom level, and         *)
(* playProgress is an integer in 1/600 of a percent (the least unit in     *)
(* which the progress step of each of the three tour durations is whole).  *)
(* A centroid is an exact fraction [n, d] in lowest terms.                 *)
(*                                                                         *)
(* React.  A handler runs against the values of the last committed render  *)
(* (its closure, `c`) and queues state updates that are applied in order   *)
(* to the pending state (`p`); refs and browser timers are read and        *)
(* written at once.  After the handler the component renders and the       *)
(* effects whose dependencies changed run, until nothing changes any       *)
(* more.  One action of the model is one handler or timer callback         *)
(* together with the renders and effects it causes.                        *)
(***************************************************************************)
EXTENDS Integers, Sequences, FiniteSets, TLC

(* ------------------------------ bounds -------------------------------- *)

\* Number of records of Store that the loader hands to the component.
NumAreas == 3

\* A tick interval is followed for at most this many ticks per tour step.
MaxTicks == 2

\* A list handed to a pure function on its own has at most this many points.
MaxPoints == 3

(* ------------------------ configuration constants --------------------- *)

CoordScale == 1000
ZoomScale == 10
ProgressScale == 600

INITIAL_VIEW == [longitude |-> [n |-> 0, d |-> 1], latitude |-> [n |-> 20 * CoordScale, d |-> 1], zoom |-> 2 * ZoomScale]

VIEWS_WORLD == [longitude |-> [n |-> 20 * CoordScale, d |-> 1], latitude |-> [n |-> 0, d |-> 1], zoom |-> 15]

VIEWS_UTAH == [longitude |-> [n |-> -111600, d |-> 1], latitude |-> [n |-> 39300, d |-> 1], zoom |-> 65]

VIEWS_CAMPUS == [longitude |-> [n |-> -111836, d |-> 1], latitude |-> [n |-> 40764, d |-> 1], zoom |-> 149]

ZOOM_MIN == 1 * ZoomScale
ZOOM_MAX == 20 * ZoomScale
ZOOM_STEP == 1 * ZoomScale
AUTO_CLUSTER_THRESHOLD == 12 * ZoomScale
CAMPUS_THRESHOLD == 12 * ZoomScale
CLUSTER_ZOOM_INCREMENT == 3 * ZoomScale
CLUSTER_MAX_ZOOM == 15 * ZoomScale

\* A distance table that is not ordered: zoom 6 has a larger distance than
\* zoom 5.
CLUSTER_DISTANCES_unordered == [ZOOM_3_AND_BELOW |-> 2000, ZOOM_5_AND_BELOW |-> 1000, ZOOM_6_AND_BELOW |-> 1500, ZOOM_8_AND_BELOW |-> 50, ZOOM_10_AND_BELOW |-> 20, ZOOM_12_AND_BELOW |-> 10, ZOOM_14_AND_BELOW |-> 5, ZOOM_15_AND_ABOVE |-> 1]

\* CLUSTER_DISTANCES, in thousandths of a degree, by the zoom bands of
\* getClusterDistance.
CLUSTER_DISTANCES == [ZOOM_3_AND_BELOW |-> 2000, ZOOM_5_AND_BELOW |-> 1000, ZOOM_6_AND_BELOW |-> 100, ZOOM_8_AND_BELOW |-> 50, ZOOM_10_AND_BELOW |-> 20, ZOOM_12_AND_BELOW |-> 10, ZOOM_14_AND_BELOW |-> 5, ZOOM_15_AND_ABOVE |-> 1]

BOUNDARIES == [SALT_LAKE_VALLEY |-> [MIN_LAT |-> 40400, MAX_LAT |-> 40900, MIN_LNG |-> -112200, MAX_LNG |-> -111600], UTAH |-> [MIN_LAT |-> 37000, MAX_LAT |-> 42000, MIN_LNG |-> -114000, MAX_LNG |-> -109000]]

TOUR_ZOOM_LEVELS == [CAMPUS |-> 160, SALT_LAKE_VALLEY |-> 100, UTAH |-> 65, INTERNATIONAL |-> 30]

\* TOUR_CONFIG.DURATION_OPTIONS (the values, in seconds) and DEFAULT_DURATION.
DURATION_OPTIONS == {15, 30, 60}
DEFAULT_DURATION == 60

\* TOUR_CONFIG.getProgressStep: 100 / durationMs, here in 1/600 percent.
getProgressStep(durationMs) == (100 * ProgressScale) \div durationMs

\* TOUR_CONFIG.getTimeDecrement: (durationMs / 1000) / (durationMs / 100)
\* seconds, here in tenths of a second.
getTimeDecrement(durationMs) == ((durationMs \div 1000) * 10) \div (durationMs \div 100)

termOrder == <<"Summer 25", "Spring 25", "Fall 24", "Summer 24", "Spring 24", "Fall 23", "Summer 23", "Spring 23", "Fall 22", "Summer 22", "Spring 22", "Fall 21", "Summer 21", "Spring 21", "Fall 20", "Summer 20", "Spring 20">>

(* ------------------------- the Geo-Point Store ------------------------ *)

\* The located records the CSV loader can deliver (ResearchArea, the fields
\* the component reads).  A record is referred to by its position in Store,
\* which stands for the identity of the JavaScript object.  Record 6 is a
\* second site of project 1 (same name and researcher); 6, 5, 7 and 8 lie
\* 1.5 and 1.0 degrees apart; 7 and 9 lie on the bounds of the Utah and
\* Salt Lake Valley boxes; 10 is a project that is not a campus project and
\* lies 0.004 degrees from the campus projects 1 and 2.
Store == <<
  [name |-> "Snowpack", researcherName |-> "ALPHA", term |-> "Fall 24", department |-> "Biology", type |-> "Faculty", mapFocus |-> "Campus", latitude |-> 40764, longitude |-> -111836],
  [name |-> "Dust", researcherName |-> "BRAVO", term |-> "Spring 24", department |-> "Geography", type |-> "Student", mapFocus |-> "Campus", latitude |-> 40764, longitude |-> -111836],
  [name |-> "Glaciers", researcherName |-> "CHARLIE", term |-> "Summer 25", department |-> "Biology", type |-> "Student", mapFocus |-> "World", latitude |-> 46500, longitude |-> 8000],
  [name |-> "Wildfire", researcherName |-> "DELTA", term |-> "Autumn 19", department |-> "Geography", type |-> "Faculty", mapFocus |-> "Utah", latitude |-> 40600, longitude |-> -111900],
  [name |-> "Canyons", researcherName |-> "ECHO", term |-> "Winter 19", department |-> "Biology", type |-> "Faculty", mapFocus |-> "Utah", latitude |-> 38500, longitude |-> -110000],
  [name |-> "Snowpack", researcherName |-> "ALPHA", term |-> "Fall 24", department |-> "Biology", type |-> "Faculty", mapFocus |-> "Campus", latitude |-> 37000, longitude |-> -110000],
  [name |-> "Arches", researcherName |-> "FOXTROT", term |-> "Spring 24", department |-> "Geography", type |-> "Student", mapFocus |-> "World", latitude |-> 38500, longitude |-> -109000],
  [name |-> "Lakebed", researcherName |-> "GOLF", term |-> "Winter 19", department |-> "Biology", type |-> "Student", mapFocus |-> "World", latitude |-> 38500, longitude |-> -111000],
  [name |-> "Foothills", researcherName |-> "HOTEL", term |-> "Summer 25", department |-> "Geography", type |-> "Faculty", mapFocus |-> "World", latitude |-> 40400, longitude |-> -111600],
  [name |-> "Greenhouse", researcherName |-> "INDIA", term |-> "Fall 23", department |-> "Biology", type |-> "Student", mapFocus |-> "Utah", latitude |-> 40768, longitude |-> -111836] >>

\* App's researchAreas state once the data is loaded: positions in Store.
allAreas == [i \in 1..NumAreas |-> i]

\* String.localeCompare on the terms of Store that termOrder does not list:
\* their alphabetical order.
alphabetical == <<"Autumn 19", "Winter 19">>

\* Array.indexOf: the 0-based position of x in s, or -1.
indexOf(s, x) == IF \E i \in 1..Len(s) : s[i] = x THEN (CHOOSE i \in 1..Len(s) : s[i] = x /\ \A j \in 1..(i - 1) : s[j] # x) - 1 ELSE -1

localeCompare(a, b) == indexOf(alphabetical, a) - indexOf(alphabetical, b)

(* ------------------------------ helpers ------------------------------- *)

Min(a, b) == IF a <= b THEN a ELSE b
Max(a, b) == IF a >= b THEN a ELSE b
Abs(a) == IF a < 0 THEN -a ELSE a

RECURSIVE GCD(_, _)
GCD(a, b) == IF b = 0 THEN a ELSE GCD(b, a % b)

\* The quotient cut to a whole number.
Quotient_truncated(num, den) == [n |-> num \div den, d |-> 1]

\* The fraction num / den (den > 0) in lowest terms: the value of a
\* floating-point quotient, kept exact.
Quotient(num, den) == LET g == GCD(Abs(num), den) IN IF g = 0 THEN [n |-> 0, d |-> 1] ELSE [n |-> num \div g, d |-> den \div g]

Whole(x) == [n |-> x, d |-> 1]

\* The statement sequence "x; F": x is evaluated once and handed to F.
Then(x, F(_)) == CHOOSE r \in {F(v) : v \in {x}} : TRUE

\* [...s].sort(cmp): Array.prototype.sort is stable, so this is insertion of
\* each element after the last element that does not sort after it.
RECURSIVE sortBy(_, _, _)
sortBy(s, cmp(_, _), k) ==
  IF k > Len(s) THEN << >>
  ELSE LET x == s[k]
           \* x goes before the first element y of rest with cmp(x, y) <= 0
           pos(rest) == IF \E i \in 1..Len(rest) : cmp(x, rest[i]) <= 0
                        THEN CHOOSE i \in 1..Len(rest) : cmp(x, rest[i]) <= 0 /\ \A j \in 1..(i - 1) : cmp(x, rest[j]) > 0
                        ELSE Len(rest) + 1
       IN Then(sortBy(s, cmp, k + 1), LAMBDA rest : SubSeq(rest, 1, pos(rest) - 1) \o <<x>> \o SubSeq(rest, pos(rest), Len(rest)))

(* --------------------------- filtered areas --------------------------- *)

NoFilters == [departments |-> {}, terms |-> {}, types |-> {}]

hasActiveFilters(f) == f.departments # {} \/ f.terms # {} \/ f.types # {}

\* The filter predicate with "or" between the facets' tests.
matches_anyFacet(i, f) ==
  \/ ~hasActiveFilters(f)
  \/ (f.departments # {} /\ Store[i].department \in f.departments)
  \/ (f.terms # {} /\ Store[i].term \in f.terms)
  \/ (f.types # {} /\ Store[i].type \in f.types)

matches(i, f) ==
  /\ (f.departments = {} \/ Store[i].department \in f.departments)
  /\ (f.terms = {} \/ Store[i].term \in f.terms)
  /\ (f.types = {} \/ Store[i].type \in f.types)

\* App.filteredResearchAreas, handed to MapContainer as its researchAreas
\* prop, and MapContainer.filteredAreas, which filters that list once more.
filteredResearchAreas(f) == SelectSeq(allAreas, LAMBDA i : matches(i, f))

filteredAreas(f) == SelectSeq(filteredResearchAreas(f), LAMBDA i : matches(i, f))

\* The comparator with the two one-sided answers exchanged.
termCompare_unknownFirst(a, b) ==
  LET aIndex == indexOf(termOrder, Store[a].term)
      bIndex == indexOf(termOrder, Store[b].term)
  IN IF aIndex # -1 /\ bIndex # -1 THEN aIndex - bIndex
     ELSE IF aIndex # -1 THEN 1
     ELSE IF bIndex # -1 THEN -1
     ELSE localeCompare(Store[a].term, Store[b].term)

\* The comparator of the term-recency sort.
termCompare(a, b) ==
  LET aIndex == indexOf(termOrder, Store[a].term)
      bIndex == indexOf(termOrder, Store[b].term)
  IN IF aIndex # -1 /\ bIndex # -1 THEN aIndex - bIndex
     ELSE IF aIndex # -1 THEN -1
     ELSE IF bIndex # -1 THEN 1
     ELSE localeCompare(Store[a].term, Store[b].term)

\* tourEntries, a memo of the researchAreas prop.
sortedAreas(researchAreas) == sortBy(researchAreas, termCompare, 1)

tourEntries(f) == sortedAreas(filteredResearchAreas(f))

(* ------------------------- Proximity Clusterer ------------------------ *)

\* null, for a state that holds a MarkerCluster.
Null == [id |-> "null"]

\* getClusterDistance with the distances of its last two bands exchanged.
getClusterDistance_swapped(zoom) ==
  IF zoom <= 3 * ZoomScale THEN CLUSTER_DISTANCES.ZOOM_3_AND_BELOW
  ELSE IF zoom <= 5 * ZoomScale THEN CLUSTER_DISTANCES.ZOOM_5_AND_BELOW
  ELSE IF zoom <= 6 * ZoomScale THEN CLUSTER_DISTANCES.ZOOM_6_AND_BELOW
  ELSE IF zoom <= 8 * ZoomScale THEN CLUSTER_DISTANCES.ZOOM_8_AND_BELOW
  ELSE IF zoom <= 10 * ZoomScale THEN CLUSTER_DISTANCES.ZOOM_10_AND_BELOW
  ELSE IF zoom <= 12 * ZoomScale THEN CLUSTER_DISTANCES.ZOOM_12_AND_BELOW
  ELSE IF zoom <= 14 * ZoomScale THEN CLUSTER_DISTANCES.ZOOM_15_AND_ABOVE
  ELSE CLUSTER_DISTANCES.ZOOM_14_AND_BELOW

getClusterDistance(zoom) ==
  IF zoom <= 3 * ZoomScale THEN CLUSTER_DISTANCES.ZOOM_3_AND_BELOW
  ELSE IF zoom <= 5 * ZoomScale THEN CLUSTER_DISTANCES.ZOOM_5_AND_BELOW
  ELSE IF zoom <= 6 * ZoomScale THEN CLUSTER_DISTANCES.ZOOM_6_AND_BELOW
  ELSE IF zoom <= 8 * ZoomScale THEN CLUSTER_DISTANCES.ZOOM_8_AND_BELOW
  ELSE IF zoom <= 10 * ZoomScale THEN CLUSTER_DISTANCES.ZOOM_10_AND_BELOW
  ELSE IF zoom <= 12 * ZoomScale THEN CLUSTER_DISTANCES.ZOOM_12_AND_BELOW
  ELSE IF zoom <= 14 * ZoomScale THEN CLUSTER_DISTANCES.ZOOM_14_AND_BELOW
  ELSE CLUSTER_DISTANCES.ZOOM_15_AND_ABOVE

\* The proximity test with the comparison turned round.
isNearby_beyond(a, b, clusterDistance) ==
  LET latDiff == Abs(Store[a].latitude - Store[b].latitude)
      lngDiff == Abs(Store[a].longitude - Store[b].longitude)
  IN latDiff > clusterDistance \/ lngDiff > clusterDistance \/ latDiff * latDiff + lngDiff * lngDiff >= clusterDistance * clusterDistance

\* distance <= clusterDistance for distance = sqrt(latDiff^2 + lngDiff^2),
\* compared on the squares; a difference above the threshold decides alone,
\* which keeps the squares small.
isNearby(a, b, clusterDistance) ==
  LET latDiff == Abs(Store[a].latitude - Store[b].latitude)
      lngDiff == Abs(Store[a].longitude - Store[b].longitude)
  IN /\ latDiff <= clusterDistance
     /\ lngDiff <= clusterDistance
     /\ latDiff * latDiff + lngDiff * lngDiff <= clusterDistance * clusterDistance

RECURSIVE sumOf(_, _, _)
sumOf(s, field(_), k) == IF k > Len(s) THEN 0 ELSE field(s[k]) + sumOf(s, field, k + 1)

isSameArea(a, b) == Store[a].name = Store[b].name /\ Store[a].researcherName = Store[b].researcherName

\* The outer forEach without the selectedClusterFound flag.
RECURSIVE clusterLoop_everySentinel(_, _, _, _, _, _, _)
clusterLoop_everySentinel(areas, clusterDistance, selectedArea, index, processed, clusters, selectedClusterFound) ==
  IF index > Len(areas) THEN clusters
  ELSE IF index \in processed
       THEN clusterLoop_everySentinel(areas, clusterDistance, selectedArea, index + 1, processed, clusters, selectedClusterFound)
  ELSE LET others == {o \in 1..Len(areas) : o \notin processed /\ o # index /\ isNearby(areas[index], areas[o], clusterDistance)}
           nearbyAreas == <<areas[index]>> \o SelectSeq(areas, LAMBDA a : \E o \in others : areas[o] = a)
           avgLng == Quotient(sumOf(nearbyAreas, LAMBDA a : Store[a].longitude, 1), Len(nearbyAreas))
           avgLat == Quotient(sumOf(nearbyAreas, LAMBDA a : Store[a].latitude, 1), Len(nearbyAreas))
           containsSelectedArea == selectedArea # 0 /\ \E k \in 1..Len(nearbyAreas) : isSameArea(nearbyAreas[k], selectedArea)
           clusterId == IF containsSelectedArea THEN "selected-cluster" ELSE "cluster-" \o ToString(Len(clusters))
           cluster == [id |-> clusterId, longitude |-> avgLng, latitude |-> avgLat, areas |-> nearbyAreas, isCluster |-> Len(nearbyAreas) > 1]
       IN clusterLoop_everySentinel(areas, clusterDistance, selectedArea, index + 1, processed \cup {index} \cup others, Append(clusters, cluster), selectedClusterFound)

\* The body of the outer forEach of clusterMarkers from position index on:
\* processed is the set of positions already grouped, clusters the groups
\* found so far.
RECURSIVE clusterLoop(_, _, _, _, _, _, _)
clusterLoop(areas, clusterDistance, selectedArea, index, processed, clusters, selectedClusterFound) ==
  IF index > Len(areas) THEN clusters
  ELSE IF index \in processed
       THEN clusterLoop(areas, clusterDistance, selectedArea, index + 1, processed, clusters, selectedClusterFound)
  ELSE LET others == {o \in 1..Len(areas) : o \notin processed /\ o # index /\ isNearby(areas[index], areas[o], clusterDistance)}
           nearbyAreas == <<areas[index]>> \o SelectSeq(areas, LAMBDA a : \E o \in others : areas[o] = a)
           avgLng == Quotient(sumOf(nearbyAreas, LAMBDA a : Store[a].longitude, 1), Len(nearbyAreas))
           avgLat == Quotient(sumOf(nearbyAreas, LAMBDA a : Store[a].latitude, 1), Len(nearbyAreas))
           containsSelectedArea == selectedArea # 0 /\ \E k \in 1..Len(nearbyAreas) : isSameArea(nearbyAreas[k], selectedArea)
           takesSentinel == containsSelectedArea /\ ~selectedClusterFound
           clusterId == IF takesSentinel THEN "selected-cluster" ELSE "cluster-" \o ToString(Len(clusters))
           cluster == [id |-> clusterId, longitude |-> avgLng, latitude |-> avgLat, areas |-> nearbyAreas, isCluster |-> Len(nearbyAreas) > 1]
       IN clusterLoop(areas, clusterDistance, selectedArea, index + 1, processed \cup {index} \cup others, Append(clusters, cluster), selectedClusterFound \/ takesSentinel)

\* clusterMarkers with the outer forEach begun at the second point.
clusterMarkers_fromSecond(areas, zoom, selectedArea) == clusterLoop(areas, getClusterDistance(zoom), selectedArea, 2, {}, << >>, FALSE)

clusterMarkers(areas, zoom, selectedArea) == clusterLoop(areas, getClusterDistance(zoom), selectedArea, 1, {}, << >>, FALSE)

\* The campus-focus branch with the markers it keeps numbered anew.
pureCampusMarkers_renumbered(markers) ==
  LET isCampus(a) == Store[a].mapFocus = "Campus"
      campusMarkers == SelectSeq(markers, LAMBDA m : \E k \in 1..Len(m.areas) : isCampus(m.areas[k]))
  IN [k \in 1..Len(campusMarkers) |-> [campusMarkers[k] EXCEPT !.id = "cluster-" \o ToString(k - 1), !.areas = SelectSeq(campusMarkers[k].areas, isCampus), !.isCluster = Len(SelectSeq(campusMarkers[k].areas, isCampus)) > 1]]

\* The campus-focus branch of the clusteredMarkers memo: the markers with a
\* campus project, each narrowed to its campus projects.
pureCampusMarkers(markers) ==
  LET isCampus(a) == Store[a].mapFocus = "Campus"
      campusMarkers == SelectSeq(markers, LAMBDA m : \E k \in 1..Len(m.areas) : isCampus(m.areas[k]))
  IN [k \in 1..Len(campusMarkers) |-> [campusMarkers[k] EXCEPT !.areas = SelectSeq(campusMarkers[k].areas, isCampus), !.isCluster = Len(SelectSeq(campusMarkers[k].areas, isCampus)) > 1]]

\* The clusteredMarkers memo of a render c: what MarkerRenderer draws.
clusteredMarkers(c) ==
  LET areasToCluster == IF c.isPlaying THEN sortBy(filteredResearchAreas(c.selectedFilters), termCompare, 1) ELSE filteredAreas(c.selectedFilters)
      markers == clusterMarkers(areasToCluster, c.viewState.zoom, c.selectedArea)
  IN IF c.isUofUFocused THEN pureCampusMarkers(markers) ELSE markers

(* ------------------------------- state -------------------------------- *)

VARIABLES
  selectedFilters,         \* App: the facet filter handed down as a prop
  selectedArea,            \* a position in Store, or 0 for null
  selectedCluster,         \* a MarkerCluster, or Null
  previousCluster,         \* a MarkerCluster, or Null
  sidePanelOpen,
  isUofUFocused,
  showingFilteredResults,
  viewState,
  isPlaying,
  currentMarkerIndex,      \* 0-based, as in the source
  playProgress,
  timeLeft,
  selectedTourDuration,
  playTimerRef,            \* the id playTimerRef.current holds, or 0 for null
  progressTimerRef,        \* the id progressTimerRef.current holds, or 0 for null
  timers,                  \* the browser's live timers, each with its closure
  mounted,                 \* FALSE once the component has been unmounted
  call,                    \* a pure function called on its own: its name and arguments
  result                   \* what that call returned, or NoCall before it returns

vars == <<selectedFilters, selectedArea, selectedCluster, previousCluster, sidePanelOpen, isUofUFocused, showingFilteredResults, viewState, isPlaying, currentMarkerIndex, playProgress, timeLeft, selectedTourDuration, playTimerRef, progressTimerRef, timers, mounted, call, result>>

\* No pure function is being called on its own.
NoCall == [fn |-> "none"]

\* The component as one record: the state of the last committed render, the
\* refs and the timers.  `fresh` names the object-valued states that the
\* running handler has set to a new object, which an effect's dependency
\* comparison (Object.is) sees as changed even when the content is equal.
Cur == [selectedFilters |-> selectedFilters, selectedArea |-> selectedArea, selectedCluster |-> selectedCluster, previousCluster |-> previousCluster, sidePanelOpen |-> sidePanelOpen, isUofUFocused |-> isUofUFocused, showingFilteredResults |-> showingFilteredResults, viewState |-> viewState, isPlaying |-> isPlaying, currentMarkerIndex |-> currentMarkerIndex, playProgress |-> playProgress, timeLeft |-> timeLeft, selectedTourDuration |-> selectedTourDuration, playTimerRef |-> playTimerRef, progressTimerRef |-> progressTimerRef, timers |-> timers, fresh |-> {}]

(* --------------------------- browser timers --------------------------- *)

\* The id of a new timer.  Ids are only ever compared with the ids the two
\* refs hold, so the least id that neither a live timer nor a ref uses
\* stands for the browser's next id.
newTimerId(p) == CHOOSE id \in 1..(Cardinality(p.timers) + 3) : /\ id \notin {t.id : t \in p.timers} \cup {p.playTimerRef, p.progressTimerRef}
                                                                /\ \A j \in 1..(id - 1) : j \in {t.id : t \in p.timers} \cup {p.playTimerRef, p.progressTimerRef}

\* clearTimeout / clearInterval: no effect when no live timer has the id.
clearTimer(p, id) == [p EXCEPT !.timers = {t \in @ : t.id # id}]

\* if (playTimerRef.current) { clearTimeout(...); playTimerRef.current = null }
clearPlayTimer(p) == IF p.playTimerRef # 0 THEN [clearTimer(p, p.playTimerRef) EXCEPT !.playTimerRef = 0] ELSE p

\* if (progressTimerRef.current) { clearInterval(...); progressTimerRef.current = null }
clearProgressTimer(p) == IF p.progressTimerRef # 0 THEN [clearTimer(p, p.progressTimerRef) EXCEPT !.progressTimerRef = 0] ELSE p

\* What a timer callback closes over: the render whose navigateToMarker
\* scheduled it (its tourEntries and selectedTourDuration) and the index.
closureOf(c, index) == [selectedFilters |-> c.selectedFilters, selectedTourDuration |-> c.selectedTourDuration, index |-> index]

(* ------------------------------ handlers ------------------------------ *)
\* stopPlay that keeps currentMarkerIndex.
stopPlay_keepIndex(c, p) ==
  LET p1 == [p EXCEPT !.isPlaying = FALSE, !.playProgress = 0, !.timeLeft = c.selectedTourDuration]
      p2 == clearProgressTimer(clearPlayTimer(p1))
  IN [p2 EXCEPT !.sidePanelOpen = FALSE, !.selectedArea = 0, !.selectedCluster = Null, !.previousCluster = Null]

\* stopPlay whose second timer check is an "else if".
stopPlay_elseIf(c, p) ==
  LET p1 == [p EXCEPT !.isPlaying = FALSE, !.currentMarkerIndex = 0, !.playProgress = 0, !.timeLeft = c.selectedTourDuration]
      p2 == IF p1.playTimerRef # 0 THEN clearPlayTimer(p1) ELSE clearProgressTimer(p1)
  IN [p2 EXCEPT !.sidePanelOpen = FALSE, !.selectedArea = 0, !.selectedCluster = Null, !.previousCluster = Null]


stopPlay(c, p) ==
  LET p1 == [p EXCEPT !.isPlaying = FALSE, !.currentMarkerIndex = 0, !.playProgress = 0, !.timeLeft = c.selectedTourDuration]
      p2 == clearProgressTimer(clearPlayTimer(p1))
  IN [p2 EXCEPT !.sidePanelOpen = FALSE, !.selectedArea = 0, !.selectedCluster = Null, !.previousCluster = Null]

closeSidePanel(c, p) ==
  LET p1 == IF c.isPlaying
            THEN clearProgressTimer(clearPlayTimer([p EXCEPT !.isPlaying = FALSE, !.currentMarkerIndex = 0, !.playProgress = 0, !.timeLeft = c.selectedTourDuration]))
            ELSE p
  IN [p1 EXCEPT !.sidePanelOpen = FALSE, !.selectedArea = 0, !.selectedCluster = Null, !.previousCluster = Null, !.showingFilteredResults = FALSE]

handleUtahView(c, p) == [closeSidePanel(c, [p EXCEPT !.isUofUFocused = FALSE]) EXCEPT !.viewState = VIEWS_UTAH]

handleUCampusView(c, p) == [closeSidePanel(c, [p EXCEPT !.isUofUFocused = TRUE]) EXCEPT !.viewState = VIEWS_CAMPUS]

handleWorldView(c, p) == [closeSidePanel(c, [p EXCEPT !.isUofUFocused = FALSE]) EXCEPT !.viewState = VIEWS_WORLD]

handleProjectClick(c, p, area) ==
  LET p1 == IF c.isPlaying THEN stopPlay(c, p) ELSE p
      p2 == [p1 EXCEPT !.showingFilteredResults = FALSE]
      p3 == IF c.selectedCluster # Null THEN [p2 EXCEPT !.previousCluster = c.selectedCluster] ELSE p2
  IN [p3 EXCEPT !.selectedArea = area, !.selectedCluster = Null, !.sidePanelOpen = TRUE]
\* handleClusterClick that stops the tour after it has set the selection.
handleClusterClick_stopLast(c, p, cluster) ==
  LET p2 == [p EXCEPT !.showingFilteredResults = FALSE]
      p3 == IF cluster.isCluster
            THEN IF c.viewState.zoom < AUTO_CLUSTER_THRESHOLD
                 THEN [p2 EXCEPT !.viewState = [c.viewState EXCEPT !.longitude = cluster.longitude, !.latitude = cluster.latitude, !.zoom = Min(c.viewState.zoom + CLUSTER_ZOOM_INCREMENT, CLUSTER_MAX_ZOOM)]]
                 ELSE [p2 EXCEPT !.selectedCluster = cluster, !.selectedArea = 0, !.sidePanelOpen = TRUE, !.fresh = @ \cup {"selectedCluster"}]
            ELSE handleProjectClick(c, p2, cluster.areas[1])
  IN IF c.isPlaying THEN stopPlay(c, p3) ELSE p3

\* handleClusterClick whose zoom-in on a cluster also drops the selection.
handleClusterClick_zoomClears(c, p, cluster) ==
  LET p1 == IF c.isPlaying THEN stopPlay(c, p) ELSE p
      p2 == [p1 EXCEPT !.showingFilteredResults = FALSE]
  IN IF cluster.isCluster
     THEN IF c.viewState.zoom < AUTO_CLUSTER_THRESHOLD
          THEN [p2 EXCEPT !.viewState = [c.viewState EXCEPT !.longitude = cluster.longitude, !.latitude = cluster.latitude, !.zoom = Min(c.viewState.zoom + CLUSTER_ZOOM_INCREMENT, CLUSTER_MAX_ZOOM)],
                          !.selectedArea = 0, !.selectedCluster = Null]
          ELSE [p2 EXCEPT !.selectedCluster = cluster, !.selectedArea = 0, !.sidePanelOpen = TRUE, !.fresh = @ \cup {"selectedCluster"}]
     ELSE handleProjectClick(c, p2, cluster.areas[1])

handleClusterClick(c, p, cluster) ==
  LET p1 == IF c.isPlaying THEN stopPlay(c, p) ELSE p
      p2 == [p1 EXCEPT !.showingFilteredResults = FALSE]
  IN IF cluster.isCluster
     THEN IF c.viewState.zoom < AUTO_CLUSTER_THRESHOLD
          THEN [p2 EXCEPT !.viewState = [c.viewState EXCEPT !.longitude = cluster.longitude, !.latitude = cluster.latitude, !.zoom = Min(c.viewState.zoom + CLUSTER_ZOOM_INCREMENT, CLUSTER_MAX_ZOOM)]]
          ELSE [p2 EXCEPT !.selectedCluster = cluster, !.selectedArea = 0, !.sidePanelOpen = TRUE, !.fresh = @ \cup {"selectedCluster"}]
     ELSE handleProjectClick(c, p2, cluster.areas[1])
\* handleBackToCluster without setSelectedArea(null).
handleBackToCluster_keepArea(c, p) ==
  IF c.previousCluster # Null
  THEN [p EXCEPT !.selectedCluster = c.previousCluster]
  ELSE p

\* handleBackToCluster that forgets the cluster it goes back to.
handleBackToCluster_clearPrev(c, p) ==
  IF c.previousCluster # Null
  THEN [p EXCEPT !.selectedCluster = c.previousCluster, !.selectedArea = 0, !.previousCluster = Null]
  ELSE p

handleBackToCluster(c, p) ==
  IF c.previousCluster # Null
  THEN [p EXCEPT !.selectedCluster = c.previousCluster, !.selectedArea = 0]
  ELSE p

\* startPlay without its test for an empty tour.
startPlay_noGuard(c, p) ==
  LET p1 == clearProgressTimer(clearPlayTimer(p))
  IN [p1 EXCEPT !.currentMarkerIndex = 0, !.playProgress = 0, !.timeLeft = c.selectedTourDuration, !.selectedArea = 0, !.selectedCluster = Null, !.previousCluster = Null, !.isPlaying = TRUE]

startPlay(c, p) ==
  IF Len(tourEntries(c.selectedFilters)) = 0 THEN p
  ELSE LET p1 == clearProgressTimer(clearPlayTimer(p))
       IN [p1 EXCEPT !.currentMarkerIndex = 0, !.playProgress = 0, !.timeLeft = c.selectedTourDuration, !.selectedArea = 0, !.selectedCluster = Null, !.previousCluster = Null, !.isPlaying = TRUE]

\* getZoomLevel with the boxes' bounds excluded.
getZoomLevel_strictBounds(area) ==
  LET isInSaltLakeValley == /\ Store[area].latitude > BOUNDARIES.SALT_LAKE_VALLEY.MIN_LAT
                            /\ Store[area].latitude < BOUNDARIES.SALT_LAKE_VALLEY.MAX_LAT
                            /\ Store[area].longitude > BOUNDARIES.SALT_LAKE_VALLEY.MIN_LNG
                            /\ Store[area].longitude < BOUNDARIES.SALT_LAKE_VALLEY.MAX_LNG
      isInUtah == /\ Store[area].latitude > BOUNDARIES.UTAH.MIN_LAT
                  /\ Store[area].latitude < BOUNDARIES.UTAH.MAX_LAT
                  /\ Store[area].longitude > BOUNDARIES.UTAH.MIN_LNG
                  /\ Store[area].longitude < BOUNDARIES.UTAH.MAX_LNG
  IN IF Store[area].mapFocus = "Campus" THEN TOUR_ZOOM_LEVELS.CAMPUS
     ELSE IF isInSaltLakeValley THEN TOUR_ZOOM_LEVELS.SALT_LAKE_VALLEY
     ELSE IF isInUtah THEN TOUR_ZOOM_LEVELS.UTAH
     ELSE TOUR_ZOOM_LEVELS.INTERNATIONAL

getZoomLevel(area) ==
  LET isInSaltLakeValley == /\ Store[area].latitude >= BOUNDARIES.SALT_LAKE_VALLEY.MIN_LAT
                            /\ Store[area].latitude <= BOUNDARIES.SALT_LAKE_VALLEY.MAX_LAT
                            /\ Store[area].longitude >= BOUNDARIES.SALT_LAKE_VALLEY.MIN_LNG
                            /\ Store[area].longitude <= BOUNDARIES.SALT_LAKE_VALLEY.MAX_LNG
      isInUtah == /\ Store[area].latitude >= BOUNDARIES.UTAH.MIN_LAT
                  /\ Store[area].latitude <= BOUNDARIES.UTAH.MAX_LAT
                  /\ Store[area].longitude >= BOUNDARIES.UTAH.MIN_LNG
                  /\ Store[area].longitude <= BOUNDARIES.UTAH.MAX_LNG
  IN IF Store[area].mapFocus = "Campus" THEN TOUR_ZOOM_LEVELS.CAMPUS
     ELSE IF isInSaltLakeValley THEN TOUR_ZOOM_LEVELS.SALT_LAKE_VALLEY
     ELSE IF isInUtah THEN TOUR_ZOOM_LEVELS.UTAH
     ELSE TOUR_ZOOM_LEVELS.INTERNATIONAL

\* setInterval(tick, PROGRESS_UPDATE_INTERVAL): the interval starts with the
\* locals progress = 0 and timeRemaining = selectedTourDuration, kept here
\* as the number of ticks it has run.
scheduleProgressTimer(c, p, index) ==
  LET id == newTimerId(p)
  IN [p EXCEPT !.progressTimerRef = id, !.timers = @ \cup {[id |-> id, kind |-> "interval", closure |-> closureOf(c, index), ticks |-> 0]}]

\* setTimeout(advance, durationMs)
schedulePlayTimer(c, p, index) ==
  LET id == newTimerId(p)
  IN [p EXCEPT !.playTimerRef = id, !.timers = @ \cup {[id |-> id, kind |-> "timeout", closure |-> closureOf(c, index), ticks |-> 0]}]
\* navigateToMarker that schedules its timers without clearing the refs'.
navigateToMarker_noCancel(c, p, index) ==
  IF index >= Len(tourEntries(c.selectedFilters)) THEN stopPlay(c, p)
  ELSE LET select(researchArea) ==
             [p EXCEPT !.viewState = [longitude |-> Whole(Store[researchArea].longitude), latitude |-> Whole(Store[researchArea].latitude), zoom |-> getZoomLevel(researchArea)],
                       !.selectedArea = researchArea, !.selectedCluster = Null, !.sidePanelOpen = TRUE]
       IN Then(Then(Then(tourEntries(c.selectedFilters)[index + 1], select),
                    LAMBDA q : scheduleProgressTimer(c, q, index)),
               LAMBDA q : schedulePlayTimer(c, q, index))


navigateToMarker(c, p, index) ==
  IF index >= Len(tourEntries(c.selectedFilters)) THEN stopPlay(c, p)
  ELSE LET select(researchArea) ==
             [p EXCEPT !.viewState = [longitude |-> Whole(Store[researchArea].longitude), latitude |-> Whole(Store[researchArea].latitude), zoom |-> getZoomLevel(researchArea)],
                       !.selectedArea = researchArea, !.selectedCluster = Null, !.sidePanelOpen = TRUE]
       IN Then(Then(Then(Then(tourEntries(c.selectedFilters)[index + 1], select),
                         LAMBDA q : clearPlayTimer(clearProgressTimer(q))),
                    LAMBDA q : scheduleProgressTimer(c, q, index)),
               LAMBDA q : schedulePlayTimer(c, q, index))

goToPreviousMarker(c, p) ==
  IF c.currentMarkerIndex > 0
  THEN LET p1 == [p EXCEPT !.currentMarkerIndex = @ - 1, !.playProgress = 0, !.timeLeft = c.selectedTourDuration]
       IN navigateToMarker(c, clearPlayTimer(clearProgressTimer(p1)), c.currentMarkerIndex - 1)
  ELSE p
\* goToNextMarker whose guard lets the last index through.
goToNextMarker_offByOne(c, p) ==
  IF c.currentMarkerIndex < Len(tourEntries(c.selectedFilters))
  THEN LET p1 == [p EXCEPT !.currentMarkerIndex = @ + 1, !.playProgress = 0, !.timeLeft = c.selectedTourDuration]
       IN navigateToMarker(c, clearPlayTimer(clearProgressTimer(p1)), c.currentMarkerIndex + 1)
  ELSE p


goToNextMarker(c, p) ==
  IF c.currentMarkerIndex < Len(tourEntries(c.selectedFilters)) - 1
  THEN LET p1 == [p EXCEPT !.currentMarkerIndex = @ + 1, !.playProgress = 0, !.timeLeft = c.selectedTourDuration]
       IN navigateToMarker(c, clearPlayTimer(clearProgressTimer(p1)), c.currentMarkerIndex + 1)
  ELSE p

handleZoomIn(c, p) == [p EXCEPT !.viewState = [c.viewState EXCEPT !.zoom = Min(c.viewState.zoom + ZOOM_STEP, ZOOM_MAX)]]

\* handleZoomOut without the lower bound.
handleZoomOut_unclamped(c, p) == [p EXCEPT !.viewState = [c.viewState EXCEPT !.zoom = c.viewState.zoom - ZOOM_STEP]]

handleZoomOut(c, p) == [p EXCEPT !.viewState = [c.viewState EXCEPT !.zoom = Max(c.viewState.zoom - ZOOM_STEP, ZOOM_MIN)]]

\* The callback of the tick interval t: it advances its own locals and
\* publishes them.
progressTick(t, p) ==
  LET durationMs == t.closure.selectedTourDuration * 1000
      ticks == t.ticks + 1
      progress == ticks * getProgressStep(durationMs)
      timeRemaining == t.closure.selectedTourDuration * 10 - ticks * getTimeDecrement(durationMs)
      ceil == IF timeRemaining <= 0 THEN 0 ELSE (timeRemaining + 9) \div 10
  IN [p EXCEPT !.timers = (@ \ {t}) \cup {[t EXCEPT !.ticks = ticks]},
               !.playProgress = Min(progress, 100 * ProgressScale),
               !.timeLeft = Max(0, ceil)]
\* The advance callback that shows its own entry again.
playTimeout_sameIndex(t, p) ==
  LET p0 == [p EXCEPT !.timers = @ \ {t}]
      p1 == [p0 EXCEPT !.currentMarkerIndex = t.closure.index, !.playProgress = 0, !.timeLeft = t.closure.selectedTourDuration]
  IN navigateToMarker(t.closure, clearProgressTimer(p1), t.closure.index)

\* The callback of the advance timeout t, which is no longer live when it
\* runs.
playTimeout(t, p) ==
  LET p0 == [p EXCEPT !.timers = @ \ {t}]
      p1 == [p0 EXCEPT !.currentMarkerIndex = t.closure.index + 1, !.playProgress = 0, !.timeLeft = t.closure.selectedTourDuration]
  IN navigateToMarker(t.closure, clearProgressTimer(p1), t.closure.index + 1)

\* TourControls: a duration option sets the duration and starts the tour
\* from the render in which the option was drawn.
startTourWithDuration(c, p, duration) == startPlay(c, [p EXCEPT !.selectedTourDuration = duration])

\* CategoryFilter: every change hands App a new filter object.
handleDepartmentToggle(c, p, department) ==
  [p EXCEPT !.selectedFilters = [c.selectedFilters EXCEPT !.departments = IF department \in @ THEN @ \ {department} ELSE @ \cup {department}], !.fresh = @ \cup {"selectedFilters"}]

handleTermToggle(c, p, term) ==
  [p EXCEPT !.selectedFilters = [c.selectedFilters EXCEPT !.terms = IF term \in @ THEN @ \ {term} ELSE @ \cup {term}], !.fresh = @ \cup {"selectedFilters"}]

clearAllFilters(c, p) == [p EXCEPT !.selectedFilters = NoFilters, !.fresh = @ \cup {"selectedFilters"}]

(* ------------------------------- effects ------------------------------ *)

\* "Auto-show filtered results when filters are applied"
filteredResultsEffect(c, p) ==
  IF hasActiveFilters(c.selectedFilters) /\ ~c.isPlaying
  THEN [p EXCEPT !.showingFilteredResults = TRUE, !.sidePanelOpen = TRUE]
  ELSE IF ~hasActiveFilters(c.selectedFilters)
  THEN LET p1 == [p EXCEPT !.showingFilteredResults = FALSE]
       IN IF c.selectedArea = 0 /\ c.selectedCluster = Null THEN [p1 EXCEPT !.sidePanelOpen = FALSE] ELSE p1
  ELSE p

\* "Reset UofU focus when zooming out"
campusFocusEffect(c, p) ==
  IF c.isUofUFocused /\ c.viewState.zoom < CAMPUS_THRESHOLD THEN [p EXCEPT !.isUofUFocused = FALSE] ELSE p

\* "Effect to handle play state changes"
playStateEffect(c, p) ==
  IF c.isPlaying /\ c.currentMarkerIndex < Len(tourEntries(c.selectedFilters)) THEN navigateToMarker(c, p, c.currentMarkerIndex) ELSE p

\* The state a render reads (useState values and props), without the refs,
\* the timers and the bookkeeping of fresh objects.
renderState(s) == [s EXCEPT !.playTimerRef = 0, !.progressTimerRef = 0, !.timers = {}, !.fresh = {}]

\* Whether dependency `dep` of an effect differs between render prev and the
\* next render c.
depChanged(prev, c, dep) ==
  CASE dep = "selectedFilters" -> prev.selectedFilters # c.selectedFilters \/ "selectedFilters" \in c.fresh
    [] dep = "selectedCluster" -> prev.selectedCluster # c.selectedCluster \/ "selectedCluster" \in c.fresh
    [] dep = "selectedArea" -> prev.selectedArea # c.selectedArea
    [] dep = "isPlaying" -> prev.isPlaying # c.isPlaying
    [] dep = "currentMarkerIndex" -> prev.currentMarkerIndex # c.currentMarkerIndex
    [] dep = "isUofUFocused" -> prev.isUofUFocused # c.isUofUFocused
    [] dep = "viewState.zoom" -> prev.viewState.zoom # c.viewState.zoom

\* One commit of render c after render prev: the effects whose dependency
\* lists changed run in the order of their declaration, all against c.
runEffects(prev, c) ==
  LET p0 == [c EXCEPT !.fresh = {}]
      p1 == IF \E dep \in {"selectedFilters", "isPlaying", "selectedArea", "selectedCluster"} : depChanged(prev, c, dep) THEN filteredResultsEffect(c, p0) ELSE p0
      p2 == IF \E dep \in {"viewState.zoom", "isUofUFocused"} : depChanged(prev, c, dep) THEN campusFocusEffect(c, p1) ELSE p1
  IN IF \E dep \in {"isPlaying", "currentMarkerIndex"} : depChanged(prev, c, dep) THEN playStateEffect(c, p2) ELSE p2

\* Renders and effects after a handler left the pending state p, until an
\* effect pass sets no state to a new value.
RECURSIVE render(_, _)
render(prev, p) ==
  Then(runEffects(prev, p), LAMBDA next : IF renderState(next) = renderState(p) THEN next ELSE render([p EXCEPT !.fresh = {}], next))

\* The values of the useState initialisers.
initialState == [selectedFilters |-> NoFilters, selectedArea |-> 0, selectedCluster |-> Null, previousCluster |-> Null, sidePanelOpen |-> FALSE, isUofUFocused |-> FALSE, showingFilteredResults |-> FALSE, viewState |-> INITIAL_VIEW, isPlaying |-> FALSE, currentMarkerIndex |-> 0, playProgress |-> 0, timeLeft |-> DEFAULT_DURATION, selectedTourDuration |-> DEFAULT_DURATION, playTimerRef |-> 0, progressTimerRef |-> 0, timers |-> {}, fresh |-> {}]

\* The unmount cleanup that clears the timeout only.
unmountCleanup_timeoutOnly(c, p) ==
  LET p1 == IF p.playTimerRef # 0 THEN clearTimer(p, p.playTimerRef) ELSE p
  IN [initialState EXCEPT !.selectedFilters = p1.selectedFilters, !.timers = p1.timers, !.playTimerRef = p1.playTimerRef, !.progressTimerRef = p1.progressTimerRef]

\* "Cleanup timers on unmount": the timers the refs name are cleared (the
\* refs are not reset); the component's state is gone with the component.
unmountCleanup(c, p) ==
  LET p1 == IF p.playTimerRef # 0 THEN clearTimer(p, p.playTimerRef) ELSE p
      p2 == IF p1.progressTimerRef # 0 THEN clearTimer(p1, p1.progressTimerRef) ELSE p1
  IN [initialState EXCEPT !.selectedFilters = p2.selectedFilters, !.timers = p2.timers, !.playTimerRef = p2.playTimerRef, !.progressTimerRef = p2.progressTimerRef]

(* ------------------------------- actions ------------------------------ *)

\* The next state is s.
Become(s) ==
  /\ selectedFilters' = s.selectedFilters
  /\ selectedArea' = s.selectedArea
  /\ selectedCluster' = s.selectedCluster
  /\ previousCluster' = s.previousCluster
  /\ sidePanelOpen' = s.sidePanelOpen
  /\ isUofUFocused' = s.isUofUFocused
  /\ showingFilteredResults' = s.showingFilteredResults
  /\ viewState' = s.viewState
  /\ isPlaying' = s.isPlaying
  /\ currentMarkerIndex' = s.currentMarkerIndex
  /\ playProgress' = s.playProgress
  /\ timeLeft' = s.timeLeft
  /\ selectedTourDuration' = s.selectedTourDuration
  /\ playTimerRef' = s.playTimerRef
  /\ progressTimerRef' = s.progressTimerRef
  /\ timers' = s.timers
  /\ UNCHANGED <<call, result>>

\* A handler or callback left the pending state p: the component renders
\* and runs its effects.
Commit(p) == (\E s \in {render(Cur, p)} : Become(s)) /\ mounted' = mounted

InitialRender ==
  /\ selectedFilters = initialState.selectedFilters
  /\ selectedArea = initialState.selectedArea
  /\ selectedCluster = initialState.selectedCluster
  /\ previousCluster = initialState.previousCluster
  /\ sidePanelOpen = initialState.sidePanelOpen
  /\ isUofUFocused = initialState.isUofUFocused
  /\ showingFilteredResults = initialState.showingFilteredResults
  /\ viewState = initialState.viewState
  /\ isPlaying = initialState.isPlaying
  /\ currentMarkerIndex = initialState.currentMarkerIndex
  /\ playProgress = initialState.playProgress
  /\ timeLeft = initialState.timeLeft
  /\ selectedTourDuration = initialState.selectedTourDuration
  /\ playTimerRef = initialState.playTimerRef
  /\ progressTimerRef = initialState.progressTimerRef
  /\ timers = initialState.timers
  /\ mounted = TRUE

Init == InitialRender /\ call = NoCall /\ result = NoCall

\* The facet values the filter panel's chips are clicked on (no chip of the
\* types facet is clicked).
FilterDepartments == {"Geography"}
FilterTerms == {"Fall 24"}

\* MarkerRenderer: a click on the k-th marker drawn.
ClickMarkerAt(k) == Commit(handleClusterClick(Cur, Cur, clusteredMarkers(Cur)[k]))

ClickMarker == mounted /\ \E k \in 1..Len(clusteredMarkers(Cur)) : ClickMarkerAt(k)

\* SidePanel: a click on a project of the cluster list or of the filtered
\* results list, whichever is drawn.
ClickProject ==
  /\ mounted /\ sidePanelOpen
  /\ \E area \in 1..NumAreas :
       /\ \/ /\ selectedCluster # Null /\ selectedCluster.isCluster
             /\ \E k \in 1..Len(selectedCluster.areas) : selectedCluster.areas[k] = area
          \/ /\ showingFilteredResults /\ selectedArea = 0 /\ selectedCluster = Null
             /\ \E k \in 1..Len(filteredAreas(selectedFilters)) : filteredAreas(selectedFilters)[k] = area
       /\ Commit(handleProjectClick(Cur, Cur, area))

\* SidePanel: the Back button, drawn when a project of a cluster is shown.
BackToCluster ==
  /\ mounted /\ sidePanelOpen /\ selectedArea # 0 /\ previousCluster # Null
  /\ Commit(handleBackToCluster(Cur, Cur))

\* SidePanel: the close button stops the tour when one is playing and
\* closes the panel otherwise.
ClosePanel ==
  /\ mounted /\ sidePanelOpen
  /\ Commit(IF isPlaying THEN stopPlay(Cur, Cur) ELSE closeSidePanel(Cur, Cur))

\* TourControls: a duration option of the Start Tour menu, drawn while no
\* tour is playing.
StartTourAt(duration) == Commit(startTourWithDuration(Cur, Cur, duration))

StartTour == mounted /\ ~isPlaying /\ \E duration \in DURATION_OPTIONS : StartTourAt(duration)

\* TourControls: Stop Tour, drawn while a tour is playing.
StopTour ==
  /\ mounted /\ isPlaying
  /\ Commit(stopPlay(Cur, Cur))

\* TourControls and SidePanel: the previous and next buttons, drawn while a
\* tour is playing.  Their disabled attribute repeats the handler's own
\* test, so a call at the boundary is the handler's clamped case.
PreviousMarker ==
  /\ mounted /\ isPlaying
  /\ Commit(goToPreviousMarker(Cur, Cur))

NextMarker ==
  /\ mounted /\ isPlaying
  /\ Commit(goToNextMarker(Cur, Cur))

ZoomIn == mounted /\ Commit(handleZoomIn(Cur, Cur))

ZoomOut == mounted /\ Commit(handleZoomOut(Cur, Cur))

WorldView == mounted /\ Commit(handleWorldView(Cur, Cur))

UtahView == mounted /\ Commit(handleUtahView(Cur, Cur))

CampusView == mounted /\ Commit(handleUCampusView(Cur, Cur))

DepartmentToggle ==
  /\ mounted
  /\ \E department \in FilterDepartments : Commit(handleDepartmentToggle(Cur, Cur, department))

TermToggle ==
  /\ mounted
  /\ \E term \in FilterTerms : Commit(handleTermToggle(Cur, Cur, term))

ClearAllFilters ==
  /\ mounted /\ hasActiveFilters(selectedFilters)
  /\ Commit(clearAllFilters(Cur, Cur))

\* The browser runs the callback of a live tick interval.
ProgressTick == mounted /\ \E t \in timers : t.kind = "interval" /\ t.ticks < MaxTicks /\ Commit(progressTick(t, Cur))

\* The browser runs the callback of a live advance timeout.
PlayTimeoutOf(t) == Commit(playTimeout(t, Cur))

PlayTimeout == mounted /\ \E t \in timers : t.kind = "timeout" /\ PlayTimeoutOf(t)

\* App shows the intro page again: the component is unmounted.
Unmount ==
  /\ mounted
  /\ Become(unmountCleanup(Cur, Cur))
  /\ mounted' = FALSE

Next ==
  \/ ClickMarker \/ ClickProject \/ BackToCluster \/ ClosePanel
  \/ StartTour \/ StopTour \/ PreviousMarker \/ NextMarker
  \/ ZoomIn \/ ZoomOut \/ WorldView \/ UtahView \/ CampusView
  \/ DepartmentToggle \/ TermToggle \/ ClearAllFilters
  \/ ProgressTick \/ PlayTimeout
  \/ Unmount

Spec == Init /\ [][Next]_vars

\* A tour left to itself: the user sets the filter and the view and starts
\* a tour while none is playing, and from then on only the browser's timers
\* act.  A pending timeout is run by the browser sooner or later.
IdleSetup == ~isPlaying /\ (StartTour \/ DepartmentToggle \/ TermToggle \/ ClearAllFilters \/ WorldView \/ UtahView \/ CampusView)

UnattendedNext == IdleSetup \/ ProgressTick \/ PlayTimeout

UnattendedSpec == Init /\ [][UnattendedNext]_vars /\ WF_vars(PlayTimeout)

\* One tour step followed tick by tick: the interval runs until it has
\* made the durationMs / 100 ticks of the step, and the browser runs the
\* advance timeout at some moment of its own (a timer is never early, but
\* either timer may be late by any amount).
DwellTick == mounted /\ \E t \in timers : t.kind = "interval" /\ t.ticks < t.closure.selectedTourDuration * 10 /\ Commit(progressTick(t, Cur))

DwellNext == (~isPlaying /\ StartTour) \/ DwellTick \/ PlayTimeout

DwellSpec == Init /\ [][DwellNext]_vars

\* App.departments: the departments of the loaded data, which CategoryFilter
\* offers as the department facet.
departments == {Store[allAreas[i]].department : i \in 1..Len(allAreas)}

\* CategoryFilter: a click on any department the facet offers.
AnyDepartmentToggle ==
  /\ mounted
  /\ \E department \in departments : Commit(handleDepartmentToggle(Cur, Cur, department))

\* Browsing the map without a tour, the department facet offering every
\* department of the data, so that a filter can be active while the two
\* campus projects are both drawn.
BrowseNext ==
  ~isPlaying /\
    (\/ ClickMarker \/ ClickProject \/ BackToCluster \/ ClosePanel
     \/ ZoomIn \/ ZoomOut \/ WorldView \/ UtahView \/ CampusView
     \/ AnyDepartmentToggle \/ TermToggle \/ ClearAllFilters)

BrowseSpec == Init /\ [][BrowseNext]_vars

\* The pure functions of the component, each called on its own with
\* arguments drawn from the located records, the zoom domain and the zoom
\* bands of getClusterDistance.
componentVars == <<selectedFilters, selectedArea, selectedCluster, previousCluster, sidePanelOpen, isUofUFocused, showingFilteredResults, viewState, isPlaying, currentMarkerIndex, playProgress, timeLeft, selectedTourDuration, playTimerRef, progressTimerRef, timers, mounted>>

\* The records the clusterer, the zoom tiers and the sort are called on:
\* all but the last.
Points == 1..(Len(Store) - 1)

\* The records the campus focus is tried on: the two campus projects, a
\* project far away and the last record, next to the campus.
CampusPoints == {1, 2, 3, Len(Store)}

\* The lists of at most MaxPoints different records, in every order.
CampusLists(maxLen) == UNION {{l \in [1..k -> CampusPoints] : \A i, j \in 1..k : i < j => l[i] # l[j]} : k \in 0..maxLen}

PointLists(maxLen) == UNION {{l \in [1..k -> Points] : \A i, j \in 1..k : i < j => l[i] # l[j]} : k \in 0..maxLen}

ZoomDomain == ZOOM_MIN..ZOOM_MAX

\* One zoom of each band of getClusterDistance.
ZoomBands == {z * ZoomScale : z \in {2, 4, 6, 8, 10, 12, 14, 16}}

Calls(maxLen) ==
  {[fn |-> "clusterMarkers", areas |-> a, zoom |-> z, selectedArea |-> f] : a \in PointLists(maxLen), z \in ZoomBands, f \in {0} \cup Points}
    \cup {[fn |-> "getClusterDistance", zoom |-> z] : z \in ZoomDomain}
    \cup {[fn |-> "getZoomLevel", area |-> a] : a \in Points}
    \cup {[fn |-> "tourEntries", researchAreas |-> a] : a \in PointLists(maxLen)}
    \cup {[fn |-> "campusMarkers", areas |-> a, zoom |-> z, selectedArea |-> f] : a \in CampusLists(maxLen), z \in {b \in ZoomBands : b >= CAMPUS_THRESHOLD}, f \in {0} \cup CampusPoints}

Return(value) == result = NoCall /\ result' = [fn |-> call.fn, value |-> value] /\ UNCHANGED componentVars /\ UNCHANGED call

CallClusterMarkers == call.fn = "clusterMarkers" /\ Return(clusterMarkers(call.areas, call.zoom, call.selectedArea))

CallGetClusterDistance == call.fn = "getClusterDistance" /\ Return(getClusterDistance(call.zoom))

CallGetZoomLevel == call.fn = "getZoomLevel" /\ Return(getZoomLevel(call.area))

CallTourEntries == call.fn = "tourEntries" /\ Return(sortedAreas(call.researchAreas))

\* The clusteredMarkers memo under the campus focus, on a list of its own.
CallCampusMarkers == call.fn = "campusMarkers" /\ Return(pureCampusMarkers(clusterMarkers(call.areas, call.zoom, call.selectedArea)))

FunctionsInit == InitialRender /\ call \in Calls(MaxPoints) /\ result = NoCall

FunctionsNext == CallClusterMarkers \/ CallGetClusterDistance \/ CallGetZoomLevel \/ CallTourEntries \/ CallCampusMarkers

FunctionsSpec == FunctionsInit /\ [][FunctionsNext]_vars

(* ------------------------------- claims ------------------------------- *)

intervals == {t \in timers : t.kind = "interval"}
timeouts == {t \in timers : t.kind = "timeout"}
entries == tourEntries(selectedFilters)
noTimers == timers = {} /\ playTimerRef = 0 /\ progressTimerRef = 0

\* C1: in every reachable state at most one tick interval and at most one
\* advance timeout are live, and a live timer is the one its ref holds, so
\* that the next cancellation through the refs reaches it: no path leaves a
\* second advance callback pending.
C1_AtMostOneTimerEach ==
  /\ Cardinality(intervals) <= 1
  /\ Cardinality(timeouts) <= 1
  /\ \A t \in intervals : t.id = progressTimerRef
  /\ \A t \in timeouts : t.id = playTimerRef

\* C1 witness: a tour that has advanced past its first entry, with its one
\* interval and its one timeout live.
C1_Witness == isPlaying /\ currentMarkerIndex >= 1 /\ Cardinality(intervals) = 1 /\ Cardinality(timeouts) = 1

\* C2: selectedArea and selectedCluster are never both set.
C2_SelectionExclusive == ~(selectedArea # 0 /\ selectedCluster # Null)

\* C2 witness: the cluster view, re-entered by Back from one of its projects.
C2_Witness == selectedCluster # Null /\ previousCluster = selectedCluster /\ selectedArea = 0 /\ sidePanelOpen

\* C3: a next() or previous() on a playing tour whose index is within
\* 0..N-1 leaves it within 0..N-1; next() at N-1 and previous() at 0 change
\* nothing at all (no state, no ref, no timer).
C3_InRange == 0 <= currentMarkerIndex /\ currentMarkerIndex <= Len(entries) - 1

C3_NextPreviousClamped ==
  [][isPlaying =>
       /\ (C3_InRange /\ (NextMarker \/ PreviousMarker)) => C3_InRange'
       /\ (currentMarkerIndex = Len(entries) - 1 /\ NextMarker) => UNCHANGED vars
       /\ (currentMarkerIndex = 0 /\ PreviousMarker) => UNCHANGED vars]_vars

\* C3 witness: a tour of at least two entries playing its last entry, where
\* next() is clamped.
C3_Witness == isPlaying /\ Len(entries) >= 2 /\ currentMarkerIndex = Len(entries) - 1 /\ selectedArea = entries[Len(entries)]

\* C4: left to itself, a started tour shows entry 0, every timeout that is
\* not the last entry's moves it to the next index and selects that entry,
\* and the tour eventually stops.
C4_TourRunsInOrder ==
  /\ [][/\ (StartTour /\ isPlaying') => (currentMarkerIndex' = 0 /\ selectedArea' = entries'[1])
        /\ (PlayTimeout /\ currentMarkerIndex + 1 < Len(entries)) => (isPlaying' /\ currentMarkerIndex' = currentMarkerIndex + 1 /\ selectedArea' = entries[currentMarkerIndex + 2])
        /\ (PlayTimeout /\ currentMarkerIndex + 1 >= Len(entries)) => ~isPlaying']_vars
  /\ (isPlaying ~> ~isPlaying)

\* C4 witness: the unattended tour of three or more entries has reached its
\* last entry.
C4_Witness == isPlaying /\ Len(entries) >= 3 /\ currentMarkerIndex = Len(entries) - 1 /\ selectedArea = entries[Len(entries)] /\ Cardinality(timeouts) = 1

\* C5: when the advance timeout of the last entry of its sequence fires,
\* the tour goes from playing to not playing, currentMarkerIndex is 0, no
\* timer is live or held by a ref, and no entry is selected.
C5_AdvancePastEndStops ==
  [][\A t \in timers :
       (mounted /\ t.kind = "timeout" /\ t.closure.index + 1 >= Len(tourEntries(t.closure.selectedFilters)) /\ PlayTimeoutOf(t))
         => (isPlaying /\ ~isPlaying' /\ currentMarkerIndex' = 0 /\ noTimers' /\ selectedArea' = 0 /\ selectedCluster' = Null)]_vars

\* C5 witness: the tour is over, nothing is selected and no timer is left,
\* while the camera is still where the tour put it for its last entry.
C5_Witness ==
  /\ ~isPlaying /\ noTimers /\ selectedArea = 0 /\ currentMarkerIndex = 0 /\ Len(entries) >= 3
  /\ viewState = [longitude |-> Whole(Store[entries[Len(entries)]].longitude), latitude |-> Whole(Store[entries[Len(entries)]].latitude), zoom |-> getZoomLevel(entries[Len(entries)])]

\* C6: a marker click while a tour is playing stops the tour (not playing,
\* index 0, no timer) and leaves the clicked selection in effect: the
\* project of a single marker, or the cluster when zoom >= 12.
C6_ClickStopsTourKeepsSelection ==
  [][(mounted /\ isPlaying) => \A k \in 1..Len(clusteredMarkers(Cur)) :
       ClickMarkerAt(k) =>
          LET cluster == clusteredMarkers(Cur)[k]
          IN /\ ~isPlaying' /\ currentMarkerIndex' = 0 /\ noTimers'
             /\ ~cluster.isCluster => (selectedArea' = cluster.areas[1] /\ selectedCluster' = Null /\ sidePanelOpen')
             /\ (cluster.isCluster /\ viewState.zoom >= AUTO_CLUSTER_THRESHOLD) => (selectedCluster' = cluster /\ selectedArea' = 0 /\ sidePanelOpen')]_vars

\* C6 witness: a cluster is shown in the panel, the tour is stopped, and the
\* camera is still where the tour put it for a campus entry.
C6_Witness ==
  /\ ~isPlaying /\ noTimers /\ selectedCluster # Null /\ sidePanelOpen
  /\ \E i \in 1..NumAreas : viewState = [longitude |-> Whole(Store[i].longitude), latitude |-> Whole(Store[i].latitude), zoom |-> TOUR_ZOOM_LEVELS.CAMPUS]

\* C7: in whatever state start() is called with a non-empty entry list,
\* after the call and its effects entry 0 is selected and exactly one
\* advance timeout is live.
C7_StartAlwaysNavigates ==
  \A duration \in DURATION_OPTIONS :
    LET after == render(Cur, startTourWithDuration(Cur, Cur, duration))
    IN (mounted /\ Len(entries) > 0) =>
         /\ after.isPlaying
         /\ after.selectedArea = entries[1]
         /\ Cardinality({t \in after.timers : t.kind = "timeout"}) = 1

\* C8: stop() leaves the tour not playing, index 0, progress 0, timeLeft
\* the selected duration, no timer, the panel closed and the selection
\* cleared, with or without an active filter.
C8_StopClosesEverything ==
  [][StopTour => (/\ ~isPlaying' /\ currentMarkerIndex' = 0 /\ playProgress' = 0 /\ timeLeft' = selectedTourDuration' /\ noTimers'
                  /\ ~sidePanelOpen' /\ selectedArea' = 0 /\ selectedCluster' = Null /\ previousCluster' = Null)]_vars

C10_EntriesFixedWhilePlaying ==
  [][(isPlaying /\ isPlaying') => (entries' = entries /\ currentMarkerIndex' < Len(entries'))]_vars

\* C11: a next() or previous() that changes currentMarkerIndex starts the
\* dwell of the new index afresh: playProgress is 0, timeLeft is the
\* selected duration, the entry at the new index is selected, and the only
\* timers are an interval that has not ticked and a timeout, both scheduled
\* for the new index with the selected duration.
C11_ManualStepRestartsDwell ==
  [][(isPlaying /\ (NextMarker \/ PreviousMarker) /\ currentMarkerIndex' # currentMarkerIndex) =>
       /\ isPlaying' /\ playProgress' = 0 /\ timeLeft' = selectedTourDuration
       /\ selectedArea' = entries[currentMarkerIndex' + 1]
       /\ Cardinality(intervals') = 1 /\ Cardinality(timeouts') = 1
       /\ \A t \in timers' : t.ticks = 0 /\ t.closure.index = currentMarkerIndex' /\ t.closure.selectedTourDuration = selectedTourDuration]_vars

\* C12: when the interval of a step of D seconds has made its D * 10
\* ticks, playProgress is 100 (percent) and timeLeft is 0.
C12_FinalTickCompletes ==
  \A t \in intervals : t.ticks = t.closure.selectedTourDuration * 10 => (playProgress = 100 * ProgressScale /\ timeLeft = 0)

\* C13: the advance timeout of a step is run only when the interval of
\* that step has made all its ticks.
C13_TimeoutAfterFinalTick ==
  [][isPlaying => \A t \in timers :
       (t.kind = "timeout" /\ PlayTimeoutOf(t)) => \A i \in intervals : i.ticks >= i.closure.selectedTourDuration * 10]_vars

\* C14: starting a tour with the chosen duration D leaves timeLeft = D
\* (the remaining time shown from the start until the first tick).
C14_StartShowsChosenDuration ==
  [][(mounted /\ ~isPlaying) => \A duration \in DURATION_OPTIONS :
       (StartTourAt(duration) /\ isPlaying') => timeLeft' = duration]_vars

\* C15: closing the panel leads to Idle from every state: panel closed,
\* no area, cluster or previous cluster, no filtered-results view, no tour,
\* no timer, index 0.
C15_CloseLeadsToIdle ==
  [][ClosePanel =>
       /\ ~sidePanelOpen' /\ selectedArea' = 0 /\ selectedCluster' = Null /\ previousCluster' = Null
       /\ ~showingFilteredResults' /\ ~isPlaying' /\ noTimers' /\ currentMarkerIndex' = 0]_vars

\* C16: whenever an area is selected and previousCluster is set (the Back
\* button is offered), the area is one of previousCluster's members.
C16_BackTargetContainsArea ==
  (selectedArea # 0 /\ previousCluster # Null) =>
    \E k \in 1..Len(previousCluster.areas) : previousCluster.areas[k] = selectedArea

\* C17: previousCluster never survives a selection that supersedes it:
\* once a click has entered the cluster view with a cluster, previousCluster
\* is none or that very cluster object (not one remembered from an earlier
\* render); after close and after a tour start it is none.
C17_PreviousClusterSuperseded ==
  [][mounted =>
       /\ \A k \in 1..Len(clusteredMarkers(Cur)) :
            (ClickMarkerAt(k) /\ clusteredMarkers(Cur)[k].isCluster /\ selectedCluster' = clusteredMarkers(Cur)[k]) =>
              previousCluster' \in {Null, selectedCluster'}
       /\ (ClosePanel \/ (StartTour /\ isPlaying')) => previousCluster' = Null]_vars

\* C18: Back from a project with previousCluster = C shows cluster C again
\* with no project selected, the panel open and previousCluster still C; a
\* click on a project of the cluster shown remembers that cluster, so the
\* pair can be repeated; without a previousCluster the handler sets nothing.
C18_BackReentersCluster ==
  [][mounted =>
       /\ BackToCluster =>
            (selectedCluster' = previousCluster /\ selectedArea' = 0 /\ previousCluster' = previousCluster /\ sidePanelOpen')
       /\ (selectedCluster # Null /\ ClickProject) =>
            /\ previousCluster' = selectedCluster /\ selectedCluster' = Null
            /\ \E k \in 1..Len(selectedCluster.areas) : selectedCluster.areas[k] = selectedArea'
            /\ sidePanelOpen' /\ selectedArea' # 0
       /\ previousCluster = Null => handleBackToCluster(Cur, Cur) = Cur]_vars

\* C18 witness: the cluster view as Back leaves it, the cluster shown being
\* the remembered one, which only handleBackToCluster brings about.
C18_Witness == selectedCluster # Null /\ selectedCluster.isCluster /\ previousCluster = selectedCluster /\ selectedArea = 0 /\ sidePanelOpen

\* C19: with no tour playing, a click on a multi-member cluster below zoom
\* 12 changes no selection and centres the view on the cluster's centroid
\* at zoom min(zoom + 3, 15); at zoom 12 or above it shows the cluster in
\* the panel (no project selected) and leaves the view as it is.
C19_ClusterClickZoomsOrSelects ==
  [][(mounted /\ ~isPlaying) => \A markers \in {clusteredMarkers(Cur)} : \A k \in {j \in 1..Len(markers) : markers[j].isCluster} :
       Commit(handleClusterClick(Cur, Cur, markers[k])) =>
         LET cluster == markers[k]
         IN IF viewState.zoom < 12 * ZoomScale
            THEN /\ selectedArea' = selectedArea /\ selectedCluster' = selectedCluster /\ previousCluster' = previousCluster
                 /\ viewState' = [longitude |-> cluster.longitude, latitude |-> cluster.latitude,
                                  zoom |-> IF viewState.zoom + 3 * ZoomScale < 15 * ZoomScale THEN viewState.zoom + 3 * ZoomScale ELSE 15 * ZoomScale]
            ELSE /\ selectedCluster' = cluster /\ selectedArea' = 0 /\ sidePanelOpen'
                 /\ viewState' = viewState]_vars

\* C19 witness: with no tour playing a project is still selected while the
\* view sits on the centroid of the campus cluster at a zoom that only a
\* cluster click from the world or Utah preset gives (the presets' zoom
\* plus whole steps; the campus preset and the tour use other zooms there).
C19_Witness ==
  /\ ~isPlaying /\ selectedArea # 0 /\ sidePanelOpen
  /\ viewState.longitude = Whole(Store[1].longitude) /\ viewState.latitude = Whole(Store[1].latitude)
  /\ viewState.zoom < CLUSTER_MAX_ZOOM /\ (viewState.zoom - VIEWS_WORLD.zoom) % ZoomScale = 0

\* C20: after a filter change that leaves a facet filter active while no
\* tour plays and nothing is selected, the filtered-results view is showing
\* in an open panel and its list holds, once each and in the order of the
\* data, exactly the areas whose department, term and type each lie in the
\* corresponding facet when that facet is not empty; after a filter change
\* that leaves no facet active the view is hidden, and the panel is open
\* exactly if an area or a cluster is selected.
C20_FilteredResultsFollowFilters ==
  [][(mounted /\ selectedFilters' # selectedFilters /\ (DepartmentToggle \/ TermToggle \/ ClearAllFilters)) =>
       LET f == selectedFilters'
           listed == filteredAreas(f)
           active == f.departments # {} \/ f.terms # {} \/ f.types # {}
           nothingSelected == selectedArea' = 0 /\ selectedCluster' = Null
       IN /\ (active /\ ~isPlaying' /\ nothingSelected) =>
               /\ showingFilteredResults' /\ sidePanelOpen'
               /\ \A i \in 1..NumAreas :
                    (\E k \in 1..Len(listed) : listed[k] = i)
                      <=> /\ f.departments # {} => Store[i].department \in f.departments
                          /\ f.terms # {} => Store[i].term \in f.terms
                          /\ f.types # {} => Store[i].type \in f.types
               /\ \A j, k \in 1..Len(listed) : j < k => listed[j] < listed[k]
          /\ ~active => (~showingFilteredResults' /\ (sidePanelOpen' <=> ~nothingSelected))]_vars

\* C20 witness: two facets are active, no tour plays, nothing is selected
\* and the filtered-results view is showing in the open panel.
C20_Witness ==
  /\ selectedFilters.departments # {} /\ selectedFilters.terms # {}
  /\ ~isPlaying /\ selectedArea = 0 /\ selectedCluster = Null /\ showingFilteredResults /\ sidePanelOpen

\* C21: clusterMarkers called with a focus point that the list holds (a
\* record of the same name and researcherName) returns exactly one cluster
\* with id 'selected-cluster', and that cluster holds such a record; called
\* with no focus point, or one the list does not hold, it returns no
\* cluster with that id.
C21_OneSelectedCluster ==
  (call.fn = "clusterMarkers" /\ result # NoCall) =>
    LET clusters == result.value
        same(a, b) == Store[a].name = Store[b].name /\ Store[a].researcherName = Store[b].researcherName
        present == call.selectedArea # 0 /\ \E i \in 1..Len(call.areas) : same(call.areas[i], call.selectedArea)
        sentinels == {k \in 1..Len(clusters) : clusters[k].id = "selected-cluster"}
    IN IF present
       THEN /\ Cardinality(sentinels) = 1
            /\ \A k \in sentinels : \E i \in 1..Len(clusters[k].areas) : same(clusters[k].areas[i], call.selectedArea)
       ELSE sentinels = {}

\* C21 witness: the list holds the two sites of one project in different
\* clusters and the focus is that project: two clusters hold the focus.
C21_Witness ==
  /\ call.fn = "clusterMarkers" /\ result # NoCall /\ call.selectedArea # 0
  /\ Cardinality({k \in 1..Len(result.value) : \E i \in 1..Len(result.value[k].areas) : isSameArea(result.value[k].areas[i], call.selectedArea)}) >= 2

C23_CentroidIsMean ==
  (call.fn = "clusterMarkers" /\ result # NoCall) =>
    \A k \in 1..Len(result.value) :
      LET cluster == result.value[k]
          count == Len(cluster.areas)
      IN /\ count >= 1
         /\ cluster.latitude.d > 0 /\ cluster.longitude.d > 0
         /\ count * cluster.latitude.n = cluster.latitude.d * sumOf(cluster.areas, LAMBDA a : Store[a].latitude, 1)
         /\ count * cluster.longitude.n = cluster.longitude.d * sumOf(cluster.areas, LAMBDA a : Store[a].longitude, 1)
         /\ cluster.isCluster <=> count > 1

\* C23 witness: a cluster of three members whose mean latitude is not a
\* whole number of thousandths of a degree.
C23_Witness ==
  /\ call.fn = "clusterMarkers" /\ result # NoCall
  /\ \E k \in 1..Len(result.value) : Len(result.value[k].areas) = 3 /\ result.value[k].latitude.d > 1 /\ result.value[k].isCluster

\* C24: over the zoom domain 1..20 the distance threshold never grows with
\* the zoom; it is at least 1.0 degree at zoom 1 and at most 0.005 degrees
\* at every zoom from 15 on.
C24_ThresholdNonIncreasing ==
  (call.fn = "getClusterDistance" /\ result # NoCall) =>
    /\ \A z \in ZoomDomain : z >= call.zoom => getClusterDistance(z) <= result.value
    /\ call.zoom = 1 * ZoomScale => result.value >= 1 * CoordScale
    /\ call.zoom >= 15 * ZoomScale => 1000 * result.value <= 5 * CoordScale

\* C24 witness: a zoom between the last two bands' limits has the smallest
\* threshold.
C24_Witness ==
  /\ call.fn = "getClusterDistance" /\ result # NoCall
  /\ call.zoom > 14 * ZoomScale /\ call.zoom < 15 * ZoomScale /\ result.value = CLUSTER_DISTANCES.ZOOM_15_AND_ABOVE

\* Whether a record's coordinates lie in a box of BOUNDARIES, bounds
\* included, and the zoom tier the four rules give a record.
C25_Inside(area, box) ==
  /\ Store[area].latitude \in box.MIN_LAT..box.MAX_LAT
  /\ Store[area].longitude \in box.MIN_LNG..box.MAX_LNG

C25_Tier(area) ==
  CASE Store[area].mapFocus = "Campus" -> TOUR_ZOOM_LEVELS.CAMPUS
    [] Store[area].mapFocus # "Campus" /\ C25_Inside(area, BOUNDARIES.SALT_LAKE_VALLEY) -> TOUR_ZOOM_LEVELS.SALT_LAKE_VALLEY
    [] Store[area].mapFocus # "Campus" /\ ~C25_Inside(area, BOUNDARIES.SALT_LAKE_VALLEY) /\ C25_Inside(area, BOUNDARIES.UTAH) -> TOUR_ZOOM_LEVELS.UTAH
    [] OTHER -> TOUR_ZOOM_LEVELS.INTERNATIONAL

\* C25: the tour zoom of a record is the campus preset when its mapFocus is
\* Campus, wherever it lies; otherwise the Salt Lake Valley preset when its
\* coordinates lie in that box, bounds included (also when they lie in the
\* Utah box as well); otherwise the Utah preset when they lie in the Utah
\* box, bounds included; otherwise the international preset.  Navigating
\* the tour to an entry sets the view to the entry's own longitude and
\* latitude with that zoom.
C25_TourZoomTiers ==
  (call.fn = "getZoomLevel" /\ result # NoCall) =>
    /\ result.value = C25_Tier(call.area)
    /\ LET c == [initialState EXCEPT !.isPlaying = TRUE]
       IN \A index \in 0..(Len(tourEntries(NoFilters)) - 1) :
            LET entry == tourEntries(NoFilters)[index + 1]
                view == navigateToMarker(c, c, index).viewState
            IN view = [longitude |-> Whole(Store[entry].longitude), latitude |-> Whole(Store[entry].latitude), zoom |-> C25_Tier(entry)]

\* C25 witness: a record on the bound of the Salt Lake Valley box, inside
\* the Utah box and not of Campus focus, has got the valley preset.
C25_Witness ==
  /\ call.fn = "getZoomLevel" /\ result # NoCall
  /\ Store[call.area].mapFocus # "Campus" /\ Store[call.area].latitude = BOUNDARIES.SALT_LAKE_VALLEY.MIN_LAT
  /\ C25_Inside(call.area, BOUNDARIES.UTAH) /\ result.value = TOUR_ZOOM_LEVELS.SALT_LAKE_VALLEY

\* C26: the tour order of a list is a permutation of it in which every
\* record whose term the term list holds comes before every record whose
\* term it does not hold, the former by position of their term in the term
\* list, the latter by alphabetical order of their term, and records of
\* equal term in the order they had in the list; the records of terms
\* Fall 24, Spring 24, Summer 25 in that order come out as the third, the
\* first, the second.
C26_TourOrder ==
  (call.fn = "tourEntries" /\ result # NoCall) =>
    LET input == call.researchAreas
        ordered == result.value
        known(a) == \E k \in 1..Len(termOrder) : termOrder[k] = Store[a].term
        rank(a) == CHOOSE k \in 1..Len(termOrder) : termOrder[k] = Store[a].term
        letter(a) == CHOOSE k \in 1..Len(alphabetical) : alphabetical[k] = Store[a].term
        place(a) == CHOOSE k \in 1..Len(input) : input[k] = a
    IN /\ Len(ordered) = Len(input)
       /\ {ordered[k] : k \in 1..Len(ordered)} = {input[k] : k \in 1..Len(input)}
       /\ \A i, j \in 1..Len(ordered) : i < j =>
            LET a == ordered[i]
                b == ordered[j]
            IN /\ ~(~known(a) /\ known(b))
               /\ (known(a) /\ known(b)) => rank(a) <= rank(b)
               /\ (~known(a) /\ ~known(b)) => letter(a) <= letter(b)
               /\ Store[a].term = Store[b].term => place(a) < place(b)
       /\ input = <<1, 2, 3>> => ordered = <<3, 1, 2>>

\* C26 witness: a list of two records of one term, given in the reverse of
\* their order in the data, and a record of a term the term list does not
\* hold given first, has been ordered.
C26_Witness ==
  /\ call.fn = "tourEntries" /\ result # NoCall /\ Len(result.value) = 3
  /\ indexOf(termOrder, Store[call.researchAreas[1]].term) = -1
  /\ Store[call.researchAreas[2]].term = Store[call.researchAreas[3]].term /\ call.researchAreas[2] > call.researchAreas[3]
  /\ result.value = <<call.researchAreas[2], call.researchAreas[3], call.researchAreas[1]>>

\* C27: a view preset button sets the view to the preset's longitude,
\* latitude and zoom and changes nothing else: the selection, the panel and
\* the tour (isPlaying, index, timers) stay as they are.
C27_PresetChangesViewOnly ==
  [][mounted =>
       /\ WorldView => viewState' = VIEWS_WORLD
       /\ UtahView => viewState' = VIEWS_UTAH
       /\ CampusView => viewState' = VIEWS_CAMPUS
       /\ (WorldView \/ UtahView \/ CampusView) =>
            UNCHANGED <<selectedArea, selectedCluster, previousCluster, sidePanelOpen, isPlaying, currentMarkerIndex, timers>>]_vars

\* C28: the zoom is within 1..20 before and after every step; a zoom button
\* changes it by one step, cut off at the bound, and leaves longitude,
\* latitude, the selection and the tour as they are.
C28_ZoomWithinBounds ==
  [][/\ viewState.zoom \in ZOOM_MIN..ZOOM_MAX /\ viewState'.zoom \in ZOOM_MIN..ZOOM_MAX
     /\ ZoomIn =>
          /\ viewState'.zoom = (IF viewState.zoom + 1 * ZoomScale > 20 * ZoomScale THEN 20 * ZoomScale ELSE viewState.zoom + 1 * ZoomScale)
          /\ viewState'.longitude = viewState.longitude /\ viewState'.latitude = viewState.latitude
          /\ UNCHANGED <<selectedArea, selectedCluster, previousCluster, sidePanelOpen, isPlaying, currentMarkerIndex, playProgress, timeLeft, timers>>
     /\ ZoomOut =>
          /\ viewState'.zoom = (IF viewState.zoom - 1 * ZoomScale < 1 * ZoomScale THEN 1 * ZoomScale ELSE viewState.zoom - 1 * ZoomScale)
          /\ viewState'.longitude = viewState.longitude /\ viewState'.latitude = viewState.latitude
          /\ UNCHANGED <<selectedArea, selectedCluster, previousCluster, sidePanelOpen, isPlaying, currentMarkerIndex, playProgress, timeLeft, timers>>]_vars

\* C28 witness: the zoom-out button has cut the zoom off at the lower bound
\* (the world preset's 1.5 less one step).
C28_Witness == mounted /\ viewState.zoom = ZOOM_MIN /\ viewState.longitude = VIEWS_WORLD.longitude /\ viewState.latitude = VIEWS_WORLD.latitude

\* C29: starting a tour when the tour has no entry leaves isPlaying false,
\* schedules no timer and leaves the selection, the panel and the view as
\* they are.
C29_StartOnEmptyTourDoesNothing ==
  [][(mounted /\ ~isPlaying /\ Len(filteredResearchAreas(selectedFilters)) = 0 /\ Len(entries) = 0 /\ StartTour) =>
       /\ ~isPlaying' /\ timers' = timers /\ noTimers'
       /\ UNCHANGED <<selectedArea, selectedCluster, previousCluster, sidePanelOpen, showingFilteredResults, viewState, currentMarkerIndex, playProgress>>]_vars

\* C29 witness: with no entry to tour a duration other than the one last
\* shown has been chosen in the Start Tour menu, and no tour plays.
C29_Witness ==
  /\ mounted /\ ~isPlaying /\ Len(entries) = 0 /\ noTimers
  /\ selectedTourDuration # DEFAULT_DURATION /\ timeLeft = DEFAULT_DURATION /\ playProgress = 0 /\ currentMarkerIndex = 0

\* C30: once the component is unmounted no timer is live, so no tick and
\* no advance callback can run, whatever the tour was doing.
C30_NoTimerAfterUnmount == ~mounted => timers = {}

\* C30 witness: the component was unmounted while a tour was playing (the
\* refs still name the timers that were cleared).
C30_Witness == ~mounted /\ playTimerRef # 0 /\ progressTimerRef # 0 /\ timers = {}

\* The planar distance of two records is at most t (on the squares, a
\* single difference above t deciding alone).
C31_Within(a, b, t) ==
  LET latDiff == IF Store[a].latitude >= Store[b].latitude THEN Store[a].latitude - Store[b].latitude ELSE Store[b].latitude - Store[a].latitude
      lngDiff == IF Store[a].longitude >= Store[b].longitude THEN Store[a].longitude - Store[b].longitude ELSE Store[b].longitude - Store[a].longitude
  IN latDiff <= t /\ lngDiff <= t /\ latDiff * latDiff + lngDiff * lngDiff <= t * t

\* C31: the groups clusterMarkers returns partition its input: every point
\* is in exactly one group, no group is empty, every member lies within the
\* threshold of its group's first member, the first members of two groups
\* lie farther apart than the threshold, no input gives no group, and two
\* points of the same coordinates are in the same group.
C31_GroupsPartitionInput ==
  (result # NoCall /\ call.fn = "clusterMarkers") =>
    LET groups == result.value
        t == getClusterDistance(call.zoom)
        holds(g, a) == \E k \in 1..Len(groups[g].areas) : groups[g].areas[k] = a
    IN /\ \A i \in 1..Len(call.areas) : \E g \in 1..Len(groups) :
            /\ \E k \in 1..Len(groups[g].areas) : groups[g].areas[k] = call.areas[i] /\ \A m \in 1..Len(groups[g].areas) : groups[g].areas[m] = call.areas[i] => m = k
            /\ \A h \in 1..Len(groups) : holds(h, call.areas[i]) => h = g
       /\ \A g \in 1..Len(groups) :
            /\ Len(groups[g].areas) >= 1
            /\ \A k \in 1..Len(groups[g].areas) :
                 /\ \E i \in 1..Len(call.areas) : call.areas[i] = groups[g].areas[k]
                 /\ C31_Within(groups[g].areas[1], groups[g].areas[k], t)
            /\ \A h \in 1..Len(groups) : h # g => ~C31_Within(groups[g].areas[1], groups[h].areas[1], t)
       /\ Len(call.areas) = 0 => Len(groups) = 0
       /\ \A i, j \in 1..Len(call.areas) :
            (Store[call.areas[i]].latitude = Store[call.areas[j]].latitude /\ Store[call.areas[i]].longitude = Store[call.areas[j]].longitude) =>
               \E g \in 1..Len(groups) : holds(g, call.areas[i]) /\ holds(g, call.areas[j])

\* C31 witness: a list with two points of the same coordinates that are
\* not next to each other has come back as two groups or more, the two
\* points in one group.
C31_Witness ==
  /\ result # NoCall /\ call.fn = "clusterMarkers" /\ Len(result.value) >= 2
  /\ \E i, j \in 1..Len(call.areas) : \E g \in 1..Len(result.value) :
       /\ j > i + 1 /\ call.areas[i] # call.areas[j]
       /\ Store[call.areas[i]].latitude = Store[call.areas[j]].latitude /\ Store[call.areas[i]].longitude = Store[call.areas[j]].longitude
       /\ \E k, m \in 1..Len(result.value[g].areas) : k # m /\ result.value[g].areas[k] = call.areas[i] /\ result.value[g].areas[m] = call.areas[j]

\* C32: while a tour plays, whatever the facet filter, the tour's entries
\* hold every point of the data, and (outside the campus focus) so do the
\* markers drawn.
C32_TourVisitsEveryPoint ==
  (mounted /\ isPlaying) =>
    /\ \A i \in 1..Len(allAreas) : \E k \in 1..Len(entries) : entries[k] = allAreas[i]
    /\ ~isUofUFocused => \A markers \in {clusteredMarkers(Cur)} :
         \A i \in 1..Len(allAreas) : \E m \in 1..Len(markers) : \E k \in 1..Len(markers[m].areas) : markers[m].areas[k] = allAreas[i]

\* C33: in every reachable state in which no tour plays, the index and the
\* progress are 0, timeLeft is the selected duration and no timer is live;
\* and from such a state only Start Tour leads to a state with a timer.
C33_StoppedIsAtRest ==
  [][/\ (mounted /\ ~isPlaying) =>
          (currentMarkerIndex = 0 /\ playProgress = 0 /\ timeLeft = selectedTourDuration /\ noTimers)
     /\ (mounted' /\ ~isPlaying') =>
          (currentMarkerIndex' = 0 /\ playProgress' = 0 /\ timeLeft' = selectedTourDuration' /\ noTimers')
     /\ (mounted /\ ~isPlaying /\ timers' # {}) => StartTour]_vars

\* C34: while a tour plays (the step's navigateToMarker having run), no
\* cluster is selected or remembered, the panel is open, and the selected
\* area is the tour entry at currentMarkerIndex.
C34_TourDrivesPanel ==
  (mounted /\ isPlaying) =>
    /\ selectedCluster = Null /\ previousCluster = Null /\ sidePanelOpen
    /\ currentMarkerIndex + 1 \in 1..Len(entries) /\ selectedArea = entries[currentMarkerIndex + 1]

\* C35: whenever the side panel is open there is something for it to show:
\* an area is selected, or a cluster is selected, or the filtered-results
\* view is showing.
C35_OpenPanelHasContent ==
  (mounted /\ sidePanelOpen) => (selectedArea # 0 \/ selectedCluster # Null \/ showingFilteredResults)

\* C36: with the distance table of the code, for a fixed list the number
\* of clusters never falls as the zoom rises: a lower zoom gives at most as
\* many clusters as a higher one.
C36_ZoomInNeverMerges ==
  (call.fn = "clusterMarkers" /\ result # NoCall) =>
    \A z \in ZoomBands :
      /\ z <= call.zoom => Len(clusterMarkers(call.areas, z, call.selectedArea)) <= Len(result.value)
      /\ z >= call.zoom => Len(result.value) <= Len(clusterMarkers(call.areas, z, call.selectedArea))

\* C36 witness: a list that is one cluster at the zoom of the call, two at
\* a higher zoom and three at a zoom higher still.
C36_Witness ==
  /\ call.fn = "clusterMarkers" /\ result # NoCall /\ Len(result.value) = 1
  /\ \E z1, z2 \in ZoomBands :
       /\ call.zoom < z1 /\ z1 < z2
       /\ Len(clusterMarkers(call.areas, z1, call.selectedArea)) = 2
       /\ Len(clusterMarkers(call.areas, z2, call.selectedArea)) = 3

\* C37: the ids of the clusters of one pass differ from each other, and
\* the id of the cluster found n-th (counting from 0) is 'cluster-<n>' or
\* the sentinel 'selected-cluster'; the markers the campus focus keeps
\* carry the ids the pass gave them, which differ from each other too.
C37_ClusterIdsDistinct ==
  /\ (call.fn = "clusterMarkers" /\ result # NoCall) =>
       /\ \A k \in 1..Len(result.value) : result.value[k].id \in {"selected-cluster", "cluster-" \o ToString(k - 1)}
       /\ \A j, k \in 1..Len(result.value) : j # k => result.value[j].id # result.value[k].id
  /\ (call.fn = "campusMarkers" /\ result # NoCall) =>
       /\ \A k \in 1..Len(result.value) : \E n \in 1..Len(call.areas) :
            /\ result.value[k].id \in {"selected-cluster", "cluster-" \o ToString(n - 1)}
            /\ \A pass \in {clusterMarkers(call.areas, call.zoom, call.selectedArea)} :
                 /\ n <= Len(pass) /\ pass[n].id = result.value[k].id
                 /\ \A m \in 1..Len(result.value[k].areas) : \E o \in 1..Len(pass[n].areas) : pass[n].areas[o] = result.value[k].areas[m]
       /\ \A j, k \in 1..Len(result.value) : j # k => result.value[j].id # result.value[k].id

\* C37 witness: the campus focus has dropped the marker found first, so
\* the first marker it keeps is 'cluster-1'.
C37_Witness ==
  /\ call.fn = "campusMarkers" /\ result # NoCall
  /\ Len(result.value) >= 1 /\ result.value[1].id = "cluster-1" /\ result.value[1].isCluster

\* C38: under the campus focus every marker lists campus projects only and
\* at least one, is a cluster exactly if it lists more than one, and lies
\* at the arithmetic mean of the projects it lists.
C38_CampusMarkersAtMean ==
  (call.fn = "campusMarkers" /\ result # NoCall) =>
    \A k \in 1..Len(result.value) :
      LET marker == result.value[k]
          count == Len(marker.areas)
      IN /\ \A m \in 1..count : Store[marker.areas[m]].mapFocus = "Campus"
         /\ count >= 1
         /\ marker.isCluster <=> count > 1
         /\ count * marker.latitude.n = marker.latitude.d * sumOf(marker.areas, LAMBDA a : Store[a].latitude, 1)
         /\ count * marker.longitude.n = marker.longitude.d * sumOf(marker.areas, LAMBDA a : Store[a].longitude, 1)

====
